---- MODULE Spec2Model ----
(***************************************************************************)
(* Minutiae extraction, canonical text conversion and template creation of *)
(* the fingerprint preprocessing package (src/preprocessing).              *)
(*                                                                         *)
(* Numbers that appear in file text are kept in hundredths (fixed point,   *)
(* two decimals): the text "10" is the value 1000, "90.0" is 9000 and      *)
(* "11.25" is 1125.  Radians are kept in units of 1e-4 rad.                *)
(***************************************************************************)
EXTENDS Integers, Sequences, FiniteSets, TLC

VARIABLES
    op,                 \* which operation this behaviour exercises
    pc,                 \* position of the running operation
    successful,         \* local counter of the running batch function
    total,              \* local counter of the running batch function
    idx,                \* 1-based position of the batch loop in its list
    last,               \* what the last call / loop iteration did (history)
    quality_threshold,  \* convert_min_to_txt / convert_all_minutiae_files argument
    min_minutiae_count, \* convert_all_minutiae_files argument
    source_dir,         \* files under source_dir: path -> raw text
    min_files,          \* the list convert_all_minutiae_files discovered
    txt_dir,            \* the canonical text directory: stem -> text, or NoFile
    status,             \* per stem, what this run did to its text file (history)
    minutiae_dir,       \* create_templates_from_folder: file name -> text
    txt_files,          \* the list create_templates_from_folder discovered
    templates_dir,      \* its output_dir: stem -> image, or NoImage
    include_singular,   \* create_templates_from_folder argument
    input_dir,          \* extract_minutiae_from_folder: the paths under input_dir
    image_files,        \* the list extract_minutiae_from_folder discovered
    output_dir,         \* its output_dir: the names [stem, ext] of the files in it
    keep_all_files,     \* extract_minutiae_from_folder argument
    det,                \* the detector process of the current call_mindtct
    min_file,           \* convert_min_to_txt: the raw file under conversion
    canon_file,         \* parse_minutiae_file: the file read
    result,             \* parse_minutiae_file: the table returned
    minutiae,           \* rendering: the rows [type, x, y, orientation] drawn
    orig_size,          \* rendering: (height, width) of the original scan
    target_size,        \* rendering: (height, width) of the raster
    line_length,        \* create_orientation_map argument
    dir_exists,         \* whether the input directory of the batch exists
    processed_dir,      \* pipeline: the image paths in the processed directory
    stats,              \* pipeline: the statistics dictionary being built
    counts              \* pipeline: the counts the stages have returned

counters == <<successful, total, idx>>
params == <<quality_threshold, min_minutiae_count>>
storeVars == <<source_dir, min_files, txt_dir, status>>
tplVars == <<minutiae_dir, txt_files, templates_dir, include_singular>>
extVars == <<input_dir, image_files, output_dir, keep_all_files, det>>
renderVars == <<minutiae, orig_size, target_size, line_length>>
pipeVars == <<processed_dir, stats, counts>>
callVars == <<min_file, canon_file, result, renderVars, dir_exists, pipeVars>>

vars == <<op, pc, counters, last, params, storeVars, tplVars, extVars, callVars>>

-----------------------------------------------------------------------------
(* Bounds of the model.                                                    *)

\* most records after the header of a raw file drawn for a single conversion
MaxRecs == 3
\* most files present under a batch's source directory
MaxFiles == 2

-----------------------------------------------------------------------------
(* Text.  A text is a sequence of tokens: a numeric literal, a space, a    *)
(* newline character, the two characters backslash + n, or other text.     *)

Num(v) == [k |-> "num", v |-> v]
SP == [k |-> "sp", v |-> 0]
NL == [k |-> "nl", v |-> 0]
BSN == [k |-> "bsn", v |-> 0]
JUNK == [k |-> "txt", v |-> 0]

NoFile == <<[k |-> "nofile", v |-> 0]>>

RECURSIVE Concat(_)
Concat(ss) == IF ss = <<>> THEN <<>> ELSE Head(ss) \o Concat(Tail(ss))

\* Pieces of s between the tokens of kind sep; a trailing sep opens no new piece
\* when keepLast is FALSE (file iteration), empty pieces are kept.
RECURSIVE SplitOn(_, _, _)
SplitOn(s, sep, cur) ==
    IF s = <<>> THEN <<cur>>
    ELSE IF Head(s).k = sep THEN <<cur>> \o SplitOn(Tail(s), sep, <<>>)
    ELSE SplitOn(Tail(s), sep, Append(cur, Head(s)))

\* the pieces without the empty piece that follows a final separator
DropLastEmpty(parts) ==
    IF parts[Len(parts)] = <<>> THEN SubSeq(parts, 1, Len(parts) - 1) ELSE parts

\* `for line in f`: the physical lines of the file (split on newline characters;
\* no line after a final newline, none at all for an empty file).
FileLines(text) == DropLastEmpty(SplitOn(text, "nl", <<>>))

\* str.split(): the whitespace-separated fields of a line
LineFields(line) == SelectSeq(SplitOn(line, "sp", <<>>), LAMBDA f : f # <<>>)

\* str.strip() is non-empty
NonBlank(line) == \E j \in 1..Len(line) : line[j].k # "sp"

\* sum(1 for line in f if line.strip())
LineCount(text) == Len(SelectSeq(FileLines(text), NonBlank))

-----------------------------------------------------------------------------
(* Raw detector output (.min).  A raw file is a sequence of lines; a line  *)
(* is the sequence of its colon-separated fields after strip(), the blank  *)
(* line being the empty sequence.  A field is the text of an integer, of a *)
(* decimal number (hundredths), of two integers joined by a comma, or      *)
(* other text (its characters).                                            *)

IntF(v) == [k |-> "int", n |-> <<v>>, s |-> <<>>]
FltF(v) == [k |-> "flt", n |-> <<v>>, s |-> <<>>]
PairF(x, y) == [k |-> "pair", n |-> <<x, y>>, s |-> <<>>]
TxtF(chars) == [k |-> "txt", n |-> <<>>, s |-> chars]

\* int(field) succeeds
IsInt(f) == f.k = "int"
\* float(field) succeeds
IsFloat(f) == f.k \in {"int", "flt"}
\* float(field), in hundredths
FloatOf(f) == IF f.k = "int" THEN 100 * f.n[1] ELSE f.n[1]
\* x, y = map(int, field.split(',')) succeeds
IsIntPair(f) == f.k = "pair"

\* 'BIF' in mn_type
HasBIF(f) ==
    \E j \in 1..(Len(f.s) - 2) : SubSeq(f.s, j, j + 2) = <<"B", "I", "F">>

\* lines[3:] skips this many lines
HeaderLines == 3

\* the decode without the wrap-around
OrientationNoWrap(direction_unit) == 9000 - 1125 * direction_unit

\* orientation = (90 - (11.25 * direction_unit)) % 360, in hundredths of a degree
Orientation(direction_unit) == (9000 - 1125 * direction_unit) % 36000

\* minutiae_type = 1 if 'BIF' in mn_type else 2
MinutiaeType(f) == IF HasBIF(f) THEN 1 ELSE 2

\* f"{minutiae_type} {x} {y} {orientation}"
RecordText(t, x, y, o) ==
    <<Num(100 * t), SP, Num(100 * x), SP, Num(100 * y), SP, Num(o)>>

\* One pass of the loop body over a stripped line: <<>> when the line is
\* skipped (blank, too few fields, ValueError/IndexError caught, low quality),
\* else the one-element list holding the text appended to minutiae_data.
ParseLine(line, qt) ==
    IF line = <<>> THEN <<>>
    ELSE IF Len(line) < 5 THEN <<>>
    ELSE IF ~IsIntPair(line[2]) THEN <<>>
    ELSE IF ~IsInt(line[3]) THEN <<>>
    ELSE IF ~IsFloat(line[4]) THEN <<>>
    ELSE IF FloatOf(line[4]) < qt THEN <<>>
    ELSE <<RecordText(MinutiaeType(line[5]), line[2].n[1], line[2].n[2],
                      Orientation(line[3].n[1]))>>

\* ParseRecords with the per-line try/except lost: the first record that does
\* not parse ends the loop
RECURSIVE ParseRecordsAbort(_, _)
ParseRecordsAbort(lines, qt) ==
    IF lines = <<>> THEN <<>>
    ELSE LET l == Head(lines) IN
         IF l # <<>> /\ (Len(l) < 5 \/ ~IsIntPair(l[2]) \/ ~IsInt(l[3])
                            \/ ~IsFloat(l[4]))
         THEN <<>>
         ELSE ParseLine(l, qt) \o ParseRecordsAbort(Tail(lines), qt)

\* for line in lines[3:]: ... ; the resulting minutiae_data
RECURSIVE ParseRecords(_, _)
ParseRecords(lines, qt) ==
    IF lines = <<>> THEN <<>>
    ELSE ParseLine(Head(lines), qt) \o ParseRecords(Tail(lines), qt)

\* lines[3:]
RecordLines(lines) == SubSeq(lines, HeaderLines + 1, Len(lines))

\* what output_file.write(f"{data}\\n") appends after each record
LineEnd == <<BSN>>

\* the text written for minutiae_data
RECURSIVE FileText(_)
FileText(data) ==
    IF data = <<>> THEN <<>> ELSE Head(data) \o LineEnd \o FileText(Tail(data))

\* convert_min_to_txt that writes its file whatever the number of records
convert_min_to_txt_always_writes(lines, old, qt, io) ==
    IF io # "ok" THEN [ret |-> "None", file |-> old, data |-> <<>>]
    ELSE LET minutiae_data == ParseRecords(RecordLines(lines), qt) IN
         [ret |-> "path", file |-> FileText(minutiae_data), data |-> minutiae_data]

\* convert_min_to_txt(min_file_path, output_dir, quality_threshold).
\* lines: the raw file; old: what the output path holds before the call;
\* io: what the file system does ("ok", "read_fails": open(min_file_path)
\* raises, "open_fails": open(output_file_path, 'w') raises, "write_fails":
\* the write raises after the file was opened for writing).
\* ret is "None" or "path"; file is what the output path holds afterwards.
convert_min_to_txt(lines, old, qt, io) ==
    IF io = "read_fails" THEN [ret |-> "None", file |-> old, data |-> <<>>]
    ELSE LET minutiae_data == ParseRecords(RecordLines(lines), qt) IN
         IF Len(minutiae_data) > 0
         THEN IF io = "open_fails"
              THEN [ret |-> "None", file |-> old, data |-> minutiae_data]
              ELSE IF io = "write_fails"
              THEN [ret |-> "None", file |-> <<>>, data |-> minutiae_data]
              ELSE [ret |-> "path", file |-> FileText(minutiae_data),
                    data |-> minutiae_data]
         ELSE [ret |-> "None", file |-> old, data |-> minutiae_data]

-----------------------------------------------------------------------------
(* parse_minutiae_file.  A table is [shape |-> <<rows, columns>>,          *)
(* rows |-> the rows]; numpy.loadtxt is modelled by what it returns for a  *)
(* text: it raises for a missing file, a field that is no number, or rows  *)
(* of different lengths; it squeezes one-row and one-column data.          *)

EmptyTable == [shape |-> <<0, 4>>, rows |-> <<>>]

IsNumField(f) == Len(f) = 1 /\ f[1].k = "num"

FieldsOfLines(ls) == [j \in 1..Len(ls) |-> LineFields(ls[j])]

\* the rows loadtxt reads: the fields of every non-blank line
DataRows(text) == FieldsOfLines(SelectSeq(FileLines(text), NonBlank))

\* a field that is no number, or rows of different lengths
RowsRaise(rs) ==
    \/ \E j \in 1..Len(rs) : \E c \in 1..Len(rs[j]) : ~IsNumField(rs[j][c])
    \/ \E j \in 1..Len(rs) : Len(rs[j]) # Len(rs[1])

\* loadtxt raises OSError / ValueError
LoadRaises(text) == text = NoFile \/ RowsRaise(DataRows(text))

\* the values of a row of numeric fields
RowValues(r) == [c \in 1..Len(r) |-> r[c][1].v]

\* the array loadtxt builds from n rows of k values: [ndim, rows, flat], ndim
\* the number of dimensions after the squeeze, flat the values of a 1-D array
Squeeze(vals, n, k) ==
    IF n = 0 THEN [ndim |-> 1, rows |-> <<>>, flat |-> <<>>]
    ELSE IF n = 1 /\ k = 1 THEN [ndim |-> 0, rows |-> vals, flat |-> vals[1]]
    ELSE IF n = 1 THEN [ndim |-> 1, rows |-> vals, flat |-> vals[1]]
    ELSE IF k = 1
    THEN [ndim |-> 1, rows |-> vals, flat |-> [j \in 1..n |-> vals[j][1]]]
    ELSE [ndim |-> 2, rows |-> vals, flat |-> <<>>]

RowsToArray(rs) ==
    Squeeze([j \in 1..Len(rs) |-> RowValues(rs[j])], Len(rs),
            IF rs = <<>> THEN 0 ELSE Len(rs[1]))

\* numpy.loadtxt(file_path) when it does not raise
LoadTxt(text) == RowsToArray(DataRows(text))

\* degrees (hundredths) * pi / 180, in 1e-4 rad
DegToRad(d) == (d * 31416) \div 18000

\* data[:, 3] = data[:, 3] * np.pi / 180 on a row
RowToRad(r) == [r EXCEPT ![4] = DegToRad(r[4])]

\* data[:, 3] = ...; return data.  Indexing column 3 raises IndexError on a
\* 0-d array and on fewer than four columns: the empty table is returned.
ConvertColumn(ndim, rows2) ==
    IF ndim = 0 \/ Len(rows2[1]) < 4 THEN EmptyTable
    ELSE [shape |-> <<Len(rows2), Len(rows2[1])>>,
          rows |-> [j \in 1..Len(rows2) |-> RowToRad(rows2[j])]]

\* if data.ndim == 1: data = data.reshape(1, -1)
Reshape(d) == ConvertColumn(d.ndim, IF d.ndim = 1 THEN <<d.flat>> ELSE d.rows)

\* parse_minutiae_file(file_path)
parse_minutiae_file(text) ==
    IF LoadRaises(text) THEN EmptyTable ELSE Reshape(LoadTxt(text))

-----------------------------------------------------------------------------
(* Inputs drawn for the conversion of one raw file.                        *)

TYP_BIF == <<"T", "Y", "P", "_", "B", "I", "F">>
TYP_OTH == <<"T", "Y", "P", "_", "O", "T", "H">>

\* "id:10,20:0:TYP_BIF:0.9" and "id:30,40:8:TYP_OTH:0.9"
SpecBif == <<TxtF(<<"i", "d">>), PairF(10, 20), IntF(0), TxtF(TYP_BIF), FltF(90)>>
SpecOth == <<TxtF(<<"i", "d">>), PairF(30, 40), IntF(8), TxtF(TYP_OTH), FltF(90)>>
\* "0:10,20:0:0.9:BIF", "1:30,40:8:0.9:RIG", "2:5,6:-4:0.2:BIF"
NistBif == <<IntF(0), PairF(10, 20), IntF(0), FltF(90), TxtF(<<"B", "I", "F">>)>>
NistRig == <<IntF(1), PairF(30, 40), IntF(8), FltF(90), TxtF(<<"R", "I", "G">>)>>
NistLow == <<IntF(2), PairF(5, 6), IntF(-4), FltF(20), TxtF(<<"B", "I", "F">>)>>
\* "3:7,8:1", "4:a,b:0:0.9:BIF", "5:7,8:x:0.9:RIG", ""
ShortLine == <<IntF(3), PairF(7, 8), IntF(1)>>
BadXY == <<IntF(4), TxtF(<<"a", ",", "b">>), IntF(0), FltF(90), TxtF(<<"B", "I", "F">>)>>
BadDir == <<IntF(5), PairF(7, 8), TxtF(<<"x">>), FltF(90), TxtF(<<"R", "I", "G">>)>>
BlankLine == <<>>
HeaderLine == <<TxtF(<<"h">>)>>

RecordCatalogue ==
    {SpecBif, SpecOth, NistBif, NistRig, NistLow, ShortLine, BadXY, BadDir, BlankLine}

Thresholds == {0, 50}

SeqsUpTo(S, n) == UNION {[1..m -> S] : m \in 0..n}

Header3 == <<HeaderLine, HeaderLine, HeaderLine>>

\* raw files: at most three lines of any kind, or a three-line header and records
RawFiles ==
    SeqsUpTo({HeaderLine, NistBif}, HeaderLines)
        \cup {Header3 \o r : r \in SeqsUpTo(RecordCatalogue, MaxRecs)}

IoOutcomes == {"ok", "read_fails", "open_fails", "write_fails"}

Idle == [ret |-> "None", file |-> NoFile, data |-> <<>>, io |-> "ok"]

NoDetector == [exit |-> "none", min |-> FALSE, aux |-> FALSE, stderr |-> "none"]

\* values of the variables an operation does not use
ExtUnused ==
    /\ input_dir = {}
    /\ image_files = <<>>
    /\ output_dir = {}
    /\ keep_all_files = FALSE
    /\ det = NoDetector

PipeUnused ==
    /\ processed_dir = {}
    /\ stats = <<>>
    /\ counts = <<>>

RenderUnused ==
    /\ minutiae = <<>>
    /\ orig_size = <<1, 1>>
    /\ target_size = <<1, 1>>
    /\ line_length = 0

TplUnused ==
    /\ minutiae_dir = <<>>
    /\ txt_files = <<>>
    /\ templates_dir = <<>>
    /\ include_singular = FALSE

Unused ==
    /\ source_dir = <<>>
    /\ min_files = <<>>
    /\ txt_dir = <<>>
    /\ status = <<>>
    /\ successful = 0
    /\ total = 0
    /\ idx = 0
    /\ TplUnused
    /\ ExtUnused
    /\ RenderUnused
    /\ PipeUnused
    /\ dir_exists = TRUE

InitConvert ==
    /\ op = "convert_min_to_txt"
    /\ pc = "call"
    /\ min_file \in RawFiles
    /\ quality_threshold \in Thresholds
    /\ min_minutiae_count = 0
    /\ last = Idle
    /\ result = EmptyTable
    /\ canon_file = NoFile
    /\ Unused

\* a call of convert_min_to_txt on min_file, the output path not existing before
Convert ==
    /\ op = "convert_min_to_txt"
    /\ pc = "call"
    /\ \E io \in IoOutcomes :
          LET r == convert_min_to_txt(min_file, NoFile, quality_threshold, io) IN
          last' = [ret |-> r.ret, file |-> r.file, data |-> r.data, io |-> io]
    /\ pc' = "converted"
    /\ UNCHANGED <<op, counters, params, storeVars, tplVars, extVars, callVars>>

\* parse_minutiae_file on the file the conversion returned
Reparse ==
    /\ op = "convert_min_to_txt"
    /\ pc = "converted"
    /\ last.ret = "path"
    /\ canon_file' = last.file
    /\ result' = parse_minutiae_file(last.file)
    /\ pc' = "parsed"
    /\ UNCHANGED <<op, counters, last, params, storeVars, tplVars, extVars, min_file,
                   renderVars, dir_exists, pipeVars>>

NextConvert == Convert \/ Reparse

SpecConvert == InitConvert /\ [][NextConvert]_vars

\* largest direction unit drawn for the decode, in absolute value
MaxUnit == 40

\* "0:10,20:<u>:0.9:BIF"
UnitRecord(u) ==
    <<IntF(0), PairF(10, 20), IntF(u), FltF(90), TxtF(<<"B", "I", "F">>)>>

\* raw files with two records, of direction units u and u + 32
DecodeFiles ==
    {Header3 \o <<UnitRecord(u), UnitRecord(u + 32)>> : u \in (-MaxUnit)..MaxUnit}

InitDecode ==
    /\ op = "convert_min_to_txt"
    /\ pc = "call"
    /\ min_file \in DecodeFiles
    /\ quality_threshold \in Thresholds
    /\ min_minutiae_count = 0
    /\ last = Idle
    /\ result = EmptyTable
    /\ canon_file = NoFile
    /\ Unused

SpecDecode == InitDecode /\ [][NextConvert]_vars

-----------------------------------------------------------------------------
(* Inputs drawn for parse_minutiae_file.                                   *)

\* most lines of a canonical file drawn for parse_minutiae_file
MaxRows == 3

Row4 == <<Num(100), SP, Num(1000), SP, Num(2000), SP, Num(9000)>>
Row4b == <<Num(200), SP, Num(3000), SP, Num(4000), SP, Num(0)>>
Row3 == <<Num(100), SP, Num(1000), SP, Num(2000)>>
Row5 == Row4 \o <<SP, Num(90)>>
Row1 == <<Num(100)>>
RowJunk == <<Num(100), SP, JUNK, SP, Num(2000), SP, Num(9000)>>
RowBlank == <<SP>>

CanonLines == {Row4, Row4b, Row3, Row5, Row1, RowJunk, RowBlank}

\* the text of lines, each ended by a newline character
RECURSIVE TextOf(_)
TextOf(ls) == IF ls = <<>> THEN <<>> ELSE Head(ls) \o <<NL>> \o TextOf(Tail(ls))

CanonFiles == {NoFile} \cup {TextOf(ls) : ls \in SeqsUpTo(CanonLines, MaxRows)}

InitParse ==
    /\ op = "parse_minutiae_file"
    /\ pc = "call"
    /\ canon_file \in CanonFiles
    /\ min_file = <<>>
    /\ quality_threshold = 0
    /\ min_minutiae_count = 0
    /\ last = Idle
    /\ result = EmptyTable
    /\ Unused

Parse ==
    /\ op = "parse_minutiae_file"
    /\ pc = "call"
    /\ result' = parse_minutiae_file(canon_file)
    /\ pc' = "parsed"
    /\ UNCHANGED <<op, counters, last, params, storeVars, tplVars, extVars, min_file,
                   canon_file, renderVars, dir_exists, pipeVars>>

NextParse == Parse

SpecParse == InitParse /\ [][NextParse]_vars

-----------------------------------------------------------------------------
(* convert_all_minutiae_files(source_dir, output_dir, quality_threshold,   *)
(* min_minutiae_count).  A path is [dir, stem, ext]; source_dir maps the   *)
(* paths of the files under it to their raw text.                          *)

Path(d, s, e) == [dir |-> d, stem |-> s, ext |-> e]

SourcePaths ==
    {Path("", "a", "min"), Path("", "b", "min"), Path("sub", "a", "min"),
     Path("", "c", "xyt")}

Stems == {"a", "b", "c"}

\* os.path.splitext(os.path.basename(min_file_path))[0]
StemOf(path) == path.stem

\* file.endswith('.min')
IsMinFile(path) == path.ext = "min"

\* raw files found in a batch's source directory
StoreRawFiles ==
    {<<HeaderLine, NistBif, NistRig>>,
     Header3 \o <<NistBif>>,
     Header3 \o <<NistBif, NistRig>>,
     Header3 \o <<NistLow, ShortLine>>}

\* a text file an earlier run left in the output directory
StaleText == FileText(<<RecordText(2, 3, 4, 4500)>>)

SourceDirs ==
    UNION {[D -> StoreRawFiles] :
              D \in {E \in SUBSET SourcePaths : Cardinality(E) <= MaxFiles}}

\* the orders in which os.walk (top-down) can yield the .min files of a
\* directory: any order within one directory and among the subdirectories,
\* the top directory first
WalkOrders(dir) ==
    LET M == {q \in DOMAIN dir : IsMinFile(q)}
        n == Cardinality(M)
    IN  {s \in [1..n -> M] :
            /\ \A i, j \in 1..n : i # j => s[i] # s[j]
            /\ \A i, j \in 1..n : (s[i].dir # "" /\ s[j].dir = "") => j < i}

MinCounts == {1, 2}

InitStore ==
    /\ op = "convert_all_minutiae_files"
    /\ pc = "loop"
    /\ dir_exists \in BOOLEAN
    /\ source_dir \in (IF dir_exists THEN SourceDirs ELSE {<<>>})
    /\ min_files \in WalkOrders(source_dir)
    /\ quality_threshold \in Thresholds
    /\ min_minutiae_count \in MinCounts
    /\ txt_dir \in {[s \in Stems |-> NoFile],
                    [s \in Stems |-> IF s = "a" THEN StaleText ELSE NoFile]}
    /\ status = [s \in Stems |-> "untouched"]
    /\ successful = 0
    /\ total = 0
    /\ idx = 1
    /\ last = [path |-> Path("", "", ""), ret |-> "None", survivors |-> 0,
               line_count |-> 0, counted |-> FALSE, fault |-> "none"]
    /\ min_file = <<>>
    /\ canon_file = NoFile
    /\ result = EmptyTable
    /\ TplUnused
    /\ ExtUnused
    /\ RenderUnused
    /\ PipeUnused

StoreFaults ==
    {"none", "read_fails", "open_fails", "write_fails", "count_fails", "remove_fails"}

\* the count test off by one
EnoughOffByOne(line_count, m) == line_count + 1 >= m

\* if line_count >= min_minutiae_count
Enough(line_count, m) == line_count >= m

\* One pass of `for min_file_path in min_files` (lines 248-264).  fault names
\* the one file-system call of this pass that raises, if any: the read of the
\* raw file, the open or the write of the text file (convert_min_to_txt), the
\* open of the text file for counting, or os.remove.
ConvertIteration(fault) ==
    /\ op = "convert_all_minutiae_files"
    /\ pc = "loop"
    /\ idx <= Len(min_files)
    /\ LET min_file_path == min_files[idx]
           stem == StemOf(min_file_path)
           io == IF fault \in {"read_fails", "open_fails", "write_fails"}
                 THEN fault ELSE "ok"
           r == convert_min_to_txt(source_dir[min_file_path], txt_dir[stem],
                                   quality_threshold, io)
           line_count == IF r.ret = "path" THEN LineCount(r.file) ELSE 0
           enough == Enough(line_count, min_minutiae_count)
           \* the call named by fault is made in this pass
           fires ==
               CASE fault = "none" -> TRUE
                 [] fault = "read_fails" -> TRUE
                 [] fault \in {"open_fails", "write_fails"} -> Len(r.data) > 0
                 [] fault = "count_fails" -> r.ret = "path"
                 [] fault = "remove_fails" -> r.ret = "path" /\ ~enough
           counted == r.ret = "path" /\ fault # "count_fails" /\ enough
           removed == r.ret = "path" /\ fault = "none" /\ ~enough
       IN  /\ fires
           /\ total' = total + 1
           /\ successful' = IF counted THEN successful + 1 ELSE successful
           /\ txt_dir' = [txt_dir EXCEPT ![stem] = IF removed THEN NoFile ELSE r.file]
           /\ status' = [status EXCEPT ![stem] =
                            IF r.ret = "path"
                            THEN IF fault = "none" THEN "checked" ELSE "unchecked"
                            ELSE IF fault = "write_fails" THEN "unchecked" ELSE @]
           /\ last' = [path |-> min_file_path, ret |-> r.ret,
                       survivors |-> Len(r.data), line_count |-> line_count,
                       counted |-> counted, fault |-> fault]
    /\ idx' = idx + 1
    /\ UNCHANGED <<op, pc, params, source_dir, min_files, tplVars, extVars, callVars>>

\* return successful, total
ConvertAllReturn ==
    /\ op = "convert_all_minutiae_files"
    /\ pc = "loop"
    /\ idx > Len(min_files)
    /\ pc' = "returned"
    /\ UNCHANGED <<op, counters, last, params, storeVars, tplVars, extVars, callVars>>

Next ==
    \/ \E fault \in StoreFaults : ConvertIteration(fault)
    \/ ConvertAllReturn

Init == InitStore

Spec == Init /\ [][Next]_vars

-----------------------------------------------------------------------------
(* Point and orientation fields (create_minutiae_map,                      *)
(* create_orientation_map).  A size is <<height, width>>; a raster maps    *)
(* each pixel <<row, column>> of its size to a value.  A row of minutiae   *)
(* is <<type, x, y, orientation>>, type, x and y in hundredths and the     *)
(* orientation in 1e-4 rad, as parse_minutiae_file returns them.  The      *)
(* sizes drawn have scale factors that binary floating point holds         *)
(* exactly, so the products below are the ones the code computes.          *)

\* most coordinate of a point drawn for rendering
MaxCoord == 3

\* config.ORIENTATION_LINE_LENGTH
ORIENTATION_LINE_LENGTH == 15

Pixels(size) == (0..(size[1] - 1)) \X (0..(size[2] - 1))

\* np.zeros(target_size, dtype=np.uint8)
ZeroMap(size) == [p \in Pixels(size) |-> 0]

\* int(a / b) and astype(np.int32) of a / b: towards zero (b > 0)
Trunc(a, b) == IF a >= 0 THEN a \div b ELSE -((-a) \div b)

\* np.round(a / b): to nearest, ties to even (b > 0)
RoundHalfEven(a, b) ==
    IF 2 * (a % b) < b THEN a \div b
    ELSE IF 2 * (a % b) > b THEN (a \div b) + 1
    ELSE IF (a \div b) % 2 = 0 THEN a \div b ELSE (a \div b) + 1

\* .clip(lo, hi)
Clip(v, lo, hi) == IF v < lo THEN lo ELSE IF v > hi THEN hi ELSE v

\* a scaled coordinate rounded to the nearest pixel
ScaleCoordRound(v, target_dim, orig_dim) ==
    RoundHalfEven(v * target_dim, 100 * orig_dim)

\* (v * scale).astype(np.int32) and int(v * scale), scale = target_dim / orig_dim,
\* v in hundredths
ScaleCoord(v, target_dim, orig_dim) == Trunc(v * target_dim, 100 * orig_dim)

\* the pixel <<row, column>> create_minutiae_map marks for a row of minutiae
MarkedPixel(r, orig, target) ==
    <<Clip(ScaleCoord(r[3], target[1], orig[1]), 0, target[1] - 1),
      Clip(ScaleCoord(r[2], target[2], orig[2]), 0, target[2] - 1)>>

\* raster[S] = 255
Stamp(raster, S) == [p \in DOMAIN raster |-> IF p \in S THEN 255 ELSE raster[p]]

\* create_minutiae_map(minutiae, orig_size, target_size)
create_minutiae_map(rows, orig, target) ==
    IF Len(rows) = 0 THEN ZeroMap(target)
    ELSE Stamp(ZeroMap(target),
               {MarkedPixel(rows[j], orig, target) : j \in 1..Len(rows)})

\* the orientations drawn, in 1e-4 rad: 0, 45, 90, 180 and 270 degrees
Angles == {0, 7854, 15708, 31416, 47124}

\* np.cos and np.sin of the orientations drawn, in 1e-4
Cos(o) ==
    CASE o = 0 -> 10000 [] o = 7854 -> 7071 [] o = 15708 -> 0
      [] o = 31416 -> -10000 [] o = 47124 -> 0

Sin(o) ==
    CASE o = 0 -> 0 [] o = 7854 -> 7071 [] o = 15708 -> 10000
      [] o = 31416 -> 0 [] o = 47124 -> -10000

Abs(v) == IF v < 0 THEN -v ELSE v

Max(a, b) == IF a >= b THEN a ELSE b

\* skimage.draw.line_nd((y1, x1), (y2, x2), endpoint=True): n + 1 samples of
\* np.linspace from start to stop, n the largest coordinate difference, each
\* coordinate rounded; the start alone when start = stop
LineSamples(y1, x1, y2, x2, n) ==
    IF n = 0 THEN {<<y1, x1>>}
    ELSE {<<RoundHalfEven(y1 * n + i * (y2 - y1), n),
            RoundHalfEven(x1 * n + i * (x2 - x1), n)>> : i \in 0..n}

line_nd(y1, x1, y2, x2) ==
    LineSamples(y1, x1, y2, x2, Max(Abs(y2 - y1), Abs(x2 - x1)))

\* the segment of a point whose scaled position is (y_scaled, x_scaled): the
\* end point is int(y2), int(x2) with x2 = x_scaled + length * cos and
\* y2 = y_scaled - length * sin
Segment(y_scaled, x_scaled, o, scaled_line_length) ==
    line_nd(y_scaled, x_scaled,
            Trunc(10000 * y_scaled - scaled_line_length * Sin(o), 10000),
            Trunc(10000 * x_scaled + scaled_line_length * Cos(o), 10000))

\* scaled_line_length = int(line_length * scale_x)
ScaledLineLength(length, orig, target) == Trunc(length * target[2], orig[2])

\* line_coords of a row of minutiae
LineCoords(r, orig, target, length) ==
    Segment(ScaleCoord(r[3], target[1], orig[1]),
            ScaleCoord(r[2], target[2], orig[2]),
            r[4], ScaledLineLength(length, orig, target))

\* the samples moved onto the nearest pixel of the raster
ClampedSamples(samples, target) ==
    {<<Clip(q[1], 0, target[1] - 1), Clip(q[2], 0, target[2] - 1)>> : q \in samples}

\* line_coords[..][valid_mask]: the samples inside the raster
ValidSamples(samples, target) ==
    {q \in samples : q[1] >= 0 /\ q[1] < target[1] /\ q[2] >= 0 /\ q[2] < target[2]}

\* the indices the pass over a row of minutiae writes to
PointWrites(r, orig, target, length) ==
    ValidSamples(LineCoords(r, orig, target, length), target)

\* the loop of create_orientation_map over the rows from the j-th on
RECURSIVE DrawLines(_, _, _, _, _, _)
DrawLines(raster, rows, j, orig, target, length) ==
    IF j > Len(rows) THEN raster
    ELSE DrawLines(Stamp(raster, PointWrites(rows[j], orig, target, length)),
                   rows, j + 1, orig, target, length)

\* create_orientation_map(minutiae, orig_size, target_size, line_length)
create_orientation_map(rows, orig, target, length) ==
    IF Len(rows) = 0 THEN ZeroMap(target)
    ELSE DrawLines(ZeroMap(target), rows, 1, orig, target, length)

\* the sizes drawn: (height, width) of the scan and of the raster
OrigSizes == {<<4, 4>>, <<2, 4>>, <<4, 2>>}

TargetSizes == {<<3, 3>>, <<2, 4>>}

-----------------------------------------------------------------------------
(* Template creation.  An image is [channels |-> <<c0, c1, c2>>]; a        *)
(* channel is given by the two fields it is composed from,                 *)
(* [minutiae_map, orientation_map]: the raster of the channel is their     *)
(* Gaussian smoothing, gain, sum and clip (lines 165-177), which no        *)
(* property here looks into.  The channel the code fills with np.zeros is  *)
(* the one whose two fields are zero.  NoImage stands for None.            *)

NoImage == [channels |-> <<>>]

\* np.zeros(target_size, dtype=np.uint8) as a channel
ZeroChannel(target) ==
    [minutiae_map |-> ZeroMap(target), orientation_map |-> ZeroMap(target)]

\* type_channels
TypeChannels(singular) ==
    IF singular THEN <<{1}, {2}, {4, 5}>> ELSE <<{1}, {2}, {-1}>>

\* minutiae[np.isin(minutiae[:, 0], channel_types)]
RECURSIVE FilterByType(_, _)
FilterByType(rows, channel_types) ==
    IF rows = <<>> THEN <<>>
    ELSE (IF \E t \in channel_types : Head(rows)[1] = 100 * t
          THEN <<Head(rows)>> ELSE <<>>)
         \o FilterByType(Tail(rows), channel_types)

\* the channel of the filtered minutiae (lines 156-177)
RenderChannel(filtered_minutiae, orig, target) ==
    IF Len(filtered_minutiae) = 0 THEN ZeroChannel(target)
    ELSE [minutiae_map |-> create_minutiae_map(filtered_minutiae, orig, target),
          orientation_map |->
              create_orientation_map(filtered_minutiae, orig, target,
                                     ORIENTATION_LINE_LENGTH)]

\* a channel rendered from all the rows, whatever their type
ChannelOfAll(channel_types, rows, orig, target) ==
    IF channel_types = {-1} THEN ZeroChannel(target)
    ELSE RenderChannel(rows, orig, target)

\* one pass of `for channel_types in type_channels` (lines 147-179)
ChannelOf(channel_types, rows, orig, target) ==
    IF channel_types = {-1} THEN ZeroChannel(target)
    ELSE RenderChannel(FilterByType(rows, channel_types), orig, target)

\* create_template_image(minutiae, orig_size, target_size, include_singular)
create_template_image(rows, orig, target, singular) ==
    [channels |->
        [c \in 1..3 |-> ChannelOf(TypeChannels(singular)[c], rows, orig, target)]]

\* a table without points is rendered too
RenderAny(table, target, singular) ==
    create_template_image(table.rows, target, target, singular)

\* if len(minutiae) == 0: return None; orig_size = target_size when it is None;
\* create_template_image(...)
RenderUnlessEmpty(table, target, singular) ==
    IF table.shape[1] = 0 THEN NoImage
    ELSE create_template_image(table.rows, target, target, singular)

\* create_template_from_file(minutiae_file, target_size, None, include_singular)
create_template_from_file(text, target, singular) ==
    RenderUnlessEmpty(parse_minutiae_file(text), target, singular)

DirNames == {Path("", "a", "txt"), Path("", "b", "txt"), Path("", "c", "md")}

\* texts found in a directory of canonical files: one and two well-formed
\* records, an empty file, and a file written by convert_min_to_txt
DirTexts == {TextOf(<<Row4>>), TextOf(<<Row4, Row4b>>), <<>>, StaleText}

MinutiaeDirs ==
    UNION {[D -> DirTexts] :
              D \in {E \in SUBSET DirNames : Cardinality(E) <= MaxFiles}}

\* f.endswith('.txt')
IsTxtFile(name) == name.ext = "txt"

\* [f for f in os.listdir(minutiae_dir) if f.endswith('.txt')], in any order
ListOrders(dir) ==
    LET M == {q \in DOMAIN dir : IsTxtFile(q)}
        n == Cardinality(M)
    IN  {s \in [1..n -> M] : \A i, j \in 1..n : i # j => s[i] # s[j]}

InitTemplates ==
    /\ op = "create_templates_from_folder"
    /\ pc = "list"
    /\ dir_exists \in BOOLEAN
    /\ minutiae_dir \in (IF dir_exists THEN MinutiaeDirs ELSE {<<>>})
    /\ txt_files = <<>>
    /\ PipeUnused
    /\ templates_dir = [s \in Stems |-> NoImage]
    /\ include_singular \in BOOLEAN
    /\ successful = 0
    /\ total = 0
    /\ idx = 1
    /\ last = [name |-> Path("", "", ""), image |-> NoImage, saved |-> FALSE]
    /\ quality_threshold = 0
    /\ min_minutiae_count = 0
    /\ source_dir = <<>>
    /\ min_files = <<>>
    /\ txt_dir = <<>>
    /\ status = <<>>
    /\ min_file = <<>>
    /\ canon_file = NoFile
    /\ result = EmptyTable
    /\ minutiae = <<>>
    /\ target_size \in TargetSizes
    /\ orig_size = target_size
    /\ line_length = ORIENTATION_LINE_LENGTH
    /\ ExtUnused

\* txt_files = [f for f in os.listdir(minutiae_dir) if f.endswith('.txt')]
\* (line 258): os.listdir raises FileNotFoundError when the directory does not
\* exist, and nothing catches it.
TemplatesListDir ==
    /\ op = "create_templates_from_folder"
    /\ pc = "list"
    /\ IF dir_exists
       THEN /\ txt_files' \in ListOrders(minutiae_dir)
            /\ pc' = "loop"
       ELSE /\ pc' = "raised"
            /\ UNCHANGED txt_files
    /\ UNCHANGED <<op, counters, last, params, storeVars, minutiae_dir,
                   templates_dir, include_singular, extVars, callVars>>

\* a pass that counts in total only the files it made a template of
TemplatePassCountsSaved(filename, template_image, save_fails) ==
    /\ save_fails => template_image # NoImage
    /\ total' =
          IF template_image # NoImage /\ ~save_fails THEN total + 1 ELSE total
    /\ successful' =
          IF template_image # NoImage /\ ~save_fails THEN successful + 1
          ELSE successful
    /\ templates_dir' =
          IF template_image # NoImage /\ ~save_fails
          THEN [templates_dir EXCEPT ![StemOf(filename)] = template_image]
          ELSE templates_dir
    /\ last' = [name |-> filename, image |-> template_image,
                saved |-> template_image # NoImage /\ ~save_fails]

\* the effect of one pass on the counters and the output directory, given the
\* image create_template_from_file returned
TemplatePass(filename, template_image, save_fails) ==
    /\ save_fails => template_image # NoImage
    /\ total' = total + 1
    /\ successful' =
          IF template_image # NoImage /\ ~save_fails THEN successful + 1
          ELSE successful
    /\ templates_dir' =
          IF template_image # NoImage /\ ~save_fails
          THEN [templates_dir EXCEPT ![StemOf(filename)] = template_image]
          ELSE templates_dir
    /\ last' = [name |-> filename, image |-> template_image,
                saved |-> template_image # NoImage /\ ~save_fails]

\* One pass of `for filename in txt_files` (lines 260-280); save_fails: plt.imsave
\* raises.
TemplateIteration(save_fails) ==
    /\ op = "create_templates_from_folder"
    /\ pc = "loop"
    /\ idx <= Len(txt_files)
    /\ TemplatePass(txt_files[idx],
                    create_template_from_file(minutiae_dir[txt_files[idx]],
                                              target_size, include_singular),
                    save_fails)
    /\ idx' = idx + 1
    /\ UNCHANGED <<op, pc, params, storeVars, minutiae_dir, txt_files,
                   include_singular, extVars, callVars>>

\* return successful, total
TemplatesReturn ==
    /\ op = "create_templates_from_folder"
    /\ pc = "loop"
    /\ idx > Len(txt_files)
    /\ pc' = "returned"
    /\ UNCHANGED <<op, counters, last, params, storeVars, tplVars, extVars, callVars>>

NextTemplates ==
    \/ TemplatesListDir
    \/ \E save_fails \in BOOLEAN : TemplateIteration(save_fails)
    \/ TemplatesReturn

SpecTemplates == InitTemplates /\ [][NextTemplates]_vars

-----------------------------------------------------------------------------
(* Direct calls of create_minutiae_map, create_orientation_map and         *)
(* create_template_image on the minutiae drawn.                            *)

\* the types drawn: bifurcation, termination, core, delta
PointTypes == {1, 2, 4, 5}

\* coordinates from just outside the scan on
Coords == (-1)..MaxCoord

RenderRows ==
    {<<100 * t, 100 * x, 100 * y, o>> :
        t \in PointTypes, x \in Coords, y \in Coords, o \in Angles}

\* the rows that follow another one in the tables of two rows
SecondRows == {<<200, 100, 100, 0>>, <<100, 200, 0, 15708>>}

RenderTables ==
    {<<>>} \cup {<<r>> : r \in RenderRows}
           \cup {<<r, q>> : r \in RenderRows, q \in SecondRows}

RenderOps == {"create_minutiae_map", "create_orientation_map", "create_template_image"}

\* line_length: the default of the configuration, or a short line
LineLengths == {ORIENTATION_LINE_LENGTH, 2}

InitRender ==
    /\ op \in RenderOps
    /\ pc = "call"
    /\ minutiae \in RenderTables
    /\ orig_size \in OrigSizes
    /\ target_size \in TargetSizes
    /\ line_length \in (IF op = "create_orientation_map" THEN LineLengths
                        ELSE {ORIENTATION_LINE_LENGTH})
    /\ include_singular \in (IF op = "create_template_image" THEN BOOLEAN
                             ELSE {FALSE})
    /\ last = [out |-> <<>>]
    /\ dir_exists = TRUE
    /\ PipeUnused
    /\ quality_threshold = 0
    /\ min_minutiae_count = 0
    /\ source_dir = <<>>
    /\ min_files = <<>>
    /\ txt_dir = <<>>
    /\ status = <<>>
    /\ successful = 0
    /\ total = 0
    /\ idx = 0
    /\ minutiae_dir = <<>>
    /\ txt_files = <<>>
    /\ templates_dir = <<>>
    /\ min_file = <<>>
    /\ canon_file = NoFile
    /\ result = EmptyTable
    /\ ExtUnused

Rendered(out) ==
    /\ pc = "call"
    /\ pc' = "rendered"
    /\ last' = [out |-> out]
    /\ UNCHANGED <<op, counters, params, storeVars, tplVars, extVars, callVars>>

MinutiaeMap ==
    /\ op = "create_minutiae_map"
    /\ Rendered(create_minutiae_map(minutiae, orig_size, target_size))

OrientationMap ==
    /\ op = "create_orientation_map"
    /\ Rendered(create_orientation_map(minutiae, orig_size, target_size,
                                       line_length))

TemplateImage ==
    /\ op = "create_template_image"
    /\ Rendered(create_template_image(minutiae, orig_size, target_size,
                                      include_singular))

NextRender == MinutiaeMap \/ OrientationMap \/ TemplateImage

SpecRender == InitRender /\ [][NextRender]_vars

-----------------------------------------------------------------------------
(* extract_minutiae_from_folder(input_dir, output_dir, keep_all_files) and *)
(* the detector.  A detector process is [exit, min, aux, stderr]: whether  *)
(* it exits ("exits"), never exits ("hangs"), blocks writing to a full     *)
(* pipe that nobody reads ("pipe_full"), or could not be started           *)
(* ("spawn_fails"); whether it writes the .min file and the auxiliary      *)
(* files; what it wrote to stderr: nothing ("none"), text that decodes as  *)
(* UTF-8 ("text"), or bytes that do not ("bytes").                         *)

SUPPORTED_IMAGE_FORMATS == {"bmp", "jpg", "jpeg", "png", "tif", "tiff"}

\* str.lower() on the extensions drawn
Lower(e) == IF e = "BMP" THEN "bmp" ELSE e

\* any(file.lower().endswith(ext) for ext in config.SUPPORTED_IMAGE_FORMATS)
IsImage(path) == Lower(path.ext) \in SUPPORTED_IMAGE_FORMATS

\* get_file_name_and_ext(image_path): directory, name without extension, extension
get_file_name_and_ext(path) == <<path.dir, path.stem, path.ext>>

\* extensions_to_remove
AuxExts == {"dm", "hcm", "lcm", "lfm", "qm", "xyt", "brw"}

Name(s, e) == [stem |-> s, ext |-> e]

ImagePaths ==
    {Path("", "a", "png"), Path("", "b", "BMP"), Path("sub", "a", "tif"),
     Path("", "n", "txt")}

InputDirs == {E \in SUBSET ImagePaths : Cardinality(E) <= MaxFiles}

\* the orders in which os.walk (top-down) can yield the images of a directory
ImageOrders(dir) ==
    LET M == {q \in dir : IsImage(q)}
        n == Cardinality(M)
    IN  {s \in [1..n -> M] :
            /\ \A i, j \in 1..n : i # j => s[i] # s[j]
            /\ \A i, j \in 1..n : (s[i].dir # "" /\ s[j].dir = "") => j < i}

StderrOutputs == {"none", "text", "bytes"}

Detectors ==
    [exit : {"exits"}, min : BOOLEAN, aux : BOOLEAN, stderr : StderrOutputs]
        \cup [exit : {"hangs", "pipe_full", "spawn_fails"}, min : {FALSE},
              aux : {FALSE}, stderr : {"none"}]

\* the value last holds before the first pass
NoPass ==
    [path |-> Path("", "", ""), min_file |-> FALSE, call |-> FALSE,
     exists |-> FALSE, raised |-> FALSE]

InitExtract ==
    /\ op = "extract_minutiae_from_folder"
    /\ pc = "loop"
    /\ dir_exists \in BOOLEAN
    /\ input_dir \in (IF dir_exists THEN InputDirs ELSE {{}})
    /\ image_files \in ImageOrders(input_dir)
    /\ output_dir \in {{}, {Name("a", "min"), Name("a", "xyt")}}
    /\ keep_all_files \in BOOLEAN
    /\ det = NoDetector
    /\ successful = 0
    /\ total = 0
    /\ idx = 1
    /\ last = NoPass
    /\ quality_threshold = 0
    /\ min_minutiae_count = 0
    /\ source_dir = <<>>
    /\ min_files = <<>>
    /\ txt_dir = <<>>
    /\ status = <<>>
    /\ min_file = <<>>
    /\ canon_file = NoFile
    /\ result = EmptyTable
    /\ TplUnused
    /\ RenderUnused
    /\ PipeUnused

\* the files a detector run for output_prefix leaves in the output directory
DetectorFiles(d, stem) ==
    (IF d.min THEN {Name(stem, "min")} ELSE {})
        \cup (IF d.aux THEN {Name(stem, e) : e \in AuxExts} ELSE {})

\* total += 1; extract_minutiae_from_image up to subprocess.Popen(...) and
\* process.wait() in call_mindtct.  When Popen raises, call_mindtct returns
\* False and the pass ends with the image not counted.
StartDetector(d) ==
    /\ op = "extract_minutiae_from_folder"
    /\ pc = "loop"
    /\ idx <= Len(image_files)
    /\ total' = total + 1
    /\ det' = d
    /\ IF d.exit = "spawn_fails"
       THEN /\ pc' = "loop"
            /\ idx' = idx + 1
            /\ last' = [path |-> image_files[idx], min_file |-> FALSE,
                        call |-> FALSE,
                        exists |-> Name(get_file_name_and_ext(image_files[idx])[2],
                                        "min") \in output_dir,
                        raised |-> FALSE]
       ELSE /\ pc' = "wait"
            /\ UNCHANGED <<idx, last>>
    /\ UNCHANGED <<op, successful, params, storeVars, tplVars, input_dir,
                   image_files, output_dir, keep_all_files, callVars>>

\* process.wait() returns: the detector has written its files and exited.  The
\* call has no timeout: nothing else ends the wait.
DetectorExits ==
    /\ op = "extract_minutiae_from_folder"
    /\ pc = "wait"
    /\ det.exit = "exits"
    /\ output_dir' = output_dir
          \cup DetectorFiles(det, get_file_name_and_ext(image_files[idx])[2])
    /\ pc' = "check"
    /\ UNCHANGED <<op, counters, last, params, storeVars, tplVars, input_dir,
                   image_files, keep_all_files, det, callVars>>

\* the auxiliary files of a prefix present in the output directory
AuxPresent(dir, stem) == {f \in dir : f.stem = stem /\ f.ext \in AuxExts}

\* call_mindtct once process.wait() has returned (lines 38-54): a non-empty
\* stderr is decoded as UTF-8 for the warning, and a decoding error is caught
\* by `except Exception` (False); else the result is whether the .min file
\* exists.
call_mindtct(min_exists, stderr) ==
    IF stderr = "bytes" THEN FALSE ELSE min_exists

\* the rest of the pass once the detector has exited: call_mindtct's result
\* (ok), then in extract_minutiae_from_image the removal of the auxiliary
\* files and the result (lines 84-97), then the counting (lines 134-137).
\* remove_fails: an os.remove raises; the exception is caught nowhere and ends
\* extract_minutiae_from_folder.
FinishPass(stem, has_min, ok, aux, remove_fails) ==
    /\ remove_fails => (ok /\ ~keep_all_files /\ aux # {})
    /\ IF remove_fails
       THEN /\ pc' = "raised"
            /\ last' = [path |-> image_files[idx], min_file |-> FALSE,
                        call |-> ok, exists |-> has_min, raised |-> TRUE]
            /\ UNCHANGED <<successful, idx, output_dir>>
       ELSE /\ pc' = "loop"
            /\ idx' = idx + 1
            /\ successful' = IF ok /\ has_min THEN successful + 1 ELSE successful
            /\ output_dir' = IF ok /\ ~keep_all_files
                             THEN output_dir \ aux ELSE output_dir
            /\ last' = [path |-> image_files[idx], min_file |-> ok /\ has_min,
                        call |-> ok, exists |-> has_min, raised |-> FALSE]

FinishItem(remove_fails) ==
    /\ op = "extract_minutiae_from_folder"
    /\ pc = "check"
    /\ FinishPass(get_file_name_and_ext(image_files[idx])[2],
                  Name(get_file_name_and_ext(image_files[idx])[2], "min")
                      \in output_dir,
                  call_mindtct(Name(get_file_name_and_ext(image_files[idx])[2],
                                    "min") \in output_dir,
                               det.stderr),
                  AuxPresent(output_dir,
                             get_file_name_and_ext(image_files[idx])[2]),
                  remove_fails)
    /\ UNCHANGED <<op, total, params, storeVars, tplVars, input_dir, image_files,
                   keep_all_files, det, callVars>>

\* return successful, total
ExtractReturn ==
    /\ op = "extract_minutiae_from_folder"
    /\ pc = "loop"
    /\ idx > Len(image_files)
    /\ pc' = "returned"
    /\ UNCHANGED <<op, counters, last, params, storeVars, tplVars, extVars,
                   callVars>>

NextExtract ==
    \/ \E d \in Detectors : StartDetector(d)
    \/ DetectorExits
    \/ \E remove_fails \in BOOLEAN : FinishItem(remove_fails)
    \/ ExtractReturn

SpecExtract == InitExtract /\ [][NextExtract]_vars

\* Every step that is enabled is eventually taken: the loop runs on, and a
\* detector that exits does so in finite time.
FairExtract == SpecExtract /\ WF_vars(NextExtract)

-----------------------------------------------------------------------------
(* PreprocessingPipeline (src/preprocessing/__init__.py).  The four        *)
(* directories of run_full_pipeline are input_dir, processed_dir,          *)
(* source_dir (output_dir/minutiae: path -> raw text), txt_dir             *)
(* (output_dir/minutiae_txt) and templates_dir.  A stage is one step: the  *)
(* call of its batch function, computed here over the whole list, and the  *)
(* assignment of its statistics.  A rate is the fraction [n, d]; err       *)
(* stands for a ZeroDivisionError.                                         *)

\* min_minutiae_count=5 in the calls of convert_all_minutiae_files
PipelineMinCount == 5

\* a / b
Divide(a, b) ==
    IF b = 0 THEN [n |-> 0, d |-> 0, err |-> TRUE]
    ELSE [n |-> a, d |-> b, err |-> FALSE]

\* a / b if b > 0 else 0
Rate(a, b) == IF b > 0 THEN Divide(a, b) ELSE [n |-> 0, d |-> 1, err |-> FALSE]

\* the raw file the detector writes: five records, or the header alone
FiveRecords == Header3 \o <<NistBif, NistRig, NistBif, NistRig, NistBif>>

\* what a detector run does in a pass of the extraction: it writes a .min file
\* of five records or of no record, writes none, never exits, or writes the
\* .min and auxiliary files of which one cannot be removed
PipeOutcomes == {"min5", "min0", "nomin", "hangs", "remove_fails"}

RawOf(outcome) == IF outcome = "min0" THEN Header3 ELSE FiveRecords

\* dir with the file at key holding text
WithFile(dir, key, text) ==
    [q \in DOMAIN dir \cup {key} |-> IF q = key THEN text ELSE dir[q]]

\* extract_minutiae_from_folder(processed_dir, minutiae_dir) from the j-th
\* image on: [successful, total, dir, end], end being "returned", "raised"
\* (os.remove, line 95) or "hung" (process.wait(), line 36)
RECURSIVE ExtractFold(_, _, _, _, _)
ExtractFold(files, j, outs, dir, succ) ==
    IF j > Len(files)
    THEN [successful |-> succ, total |-> Len(files), dir |-> dir, end |-> "returned"]
    ELSE IF outs[j] = "hangs"
    THEN [successful |-> succ, total |-> j, dir |-> dir, end |-> "hung"]
    ELSE IF outs[j] = "remove_fails"
    THEN [successful |-> succ, total |-> j,
          dir |-> WithFile(dir, Path("", get_file_name_and_ext(files[j])[2], "min"),
                           RawOf(outs[j])),
          end |-> "raised"]
    ELSE IF outs[j] = "nomin"
    THEN ExtractFold(files, j + 1, outs, dir,
                     IF call_mindtct(Path("", get_file_name_and_ext(files[j])[2],
                                          "min") \in DOMAIN dir, "none")
                     THEN succ + 1 ELSE succ)
    ELSE ExtractFold(files, j + 1, outs,
                     WithFile(dir, Path("", get_file_name_and_ext(files[j])[2], "min"),
                              RawOf(outs[j])),
                     succ + 1)

\* one pass of convert_all_minutiae_files given what convert_min_to_txt
\* returned (r) and the line count of the file written
RECURSIVE ConvertFold(_, _, _, _, _, _)
ConvertCounted(files, j, src, txt, succ, m, r, line_count) ==
    ConvertFold(files, j + 1, src,
                [txt EXCEPT ![StemOf(files[j])] =
                    IF r.ret = "path" /\ ~Enough(line_count, m) THEN NoFile
                    ELSE r.file],
                IF r.ret = "path" /\ Enough(line_count, m) THEN succ + 1 ELSE succ,
                m)

ConvertWith(files, j, src, txt, succ, m, r) ==
    ConvertCounted(files, j, src, txt, succ, m, r,
                   IF r.ret = "path" THEN LineCount(r.file) ELSE 0)

\* convert_all_minutiae_files(minutiae_dir, txt_dir, min_minutiae_count=m) from
\* the j-th file on, no file-system call failing: [successful, total, txt]
ConvertFold(files, j, src, txt, succ, m) ==
    IF j > Len(files)
    THEN [successful |-> succ, total |-> Len(files), txt |-> txt]
    ELSE ConvertWith(files, j, src, txt, succ, m,
                     convert_min_to_txt(src[files[j]], txt[StemOf(files[j])], 0, "ok"))

\* the stems of the text files in a directory of canonical files
TxtStems(txt) == {st \in DOMAIN txt : txt[st] # NoFile}

\* one pass of create_templates_from_folder given the image returned
RECURSIVE TemplatesFold(_, _, _, _, _, _)
TemplatesWith(names, j, txt, tdir, succ, target, template_image) ==
    TemplatesFold(names, j + 1, txt,
                  IF template_image # NoImage
                  THEN [tdir EXCEPT ![names[j]] = template_image] ELSE tdir,
                  IF template_image # NoImage THEN succ + 1 ELSE succ,
                  target)

\* create_templates_from_folder(txt_dir, templates_dir, target_size) from the
\* j-th file on, plt.imsave not failing: [successful, total, dir]
TemplatesFold(names, j, txt, tdir, succ, target) ==
    IF j > Len(names)
    THEN [successful |-> succ, total |-> Len(names), dir |-> tdir]
    ELSE TemplatesWith(names, j, txt, tdir, succ, target,
                       create_template_from_file(txt[names[j]], target, FALSE))

\* the orders in which a set can be listed
OrdersOf(S) ==
    {o \in [1..Cardinality(S) -> S] :
        \A i, k \in 1..Cardinality(S) : i # k => o[i] # o[k]}

PipelineOps ==
    {"run_full_pipeline", "run_preprocessing_only",
     "run_minutiae_extraction_only", "run_template_creation_only"}

\* the step a method starts with
FirstStep(o) ==
    CASE o \in {"run_full_pipeline", "run_preprocessing_only"} -> "step1"
      [] o = "run_minutiae_extraction_only" -> "step2"
      [] o = "run_template_creation_only" -> "step4"

\* no stage has returned yet; calls is the list of the batch calls made, each
\* with the directory read and the directory written
NoCounts ==
    [processed_count |-> 0, total_images |-> 0, minutiae_count |-> 0,
     extract_total |-> 0, txt_count |-> 0, convert_total |-> 0,
     template_count |-> 0, template_total |-> 0, calls |-> <<>>]

StaleImage == Path("", "c", "png")

StaleMin == Path("", "c", "min")

InitPipeline ==
    /\ op \in PipelineOps
    /\ pc = FirstStep(op)
    /\ dir_exists \in (IF op = "run_template_creation_only" THEN BOOLEAN ELSE {TRUE})
    /\ input_dir \in
          (IF op \in {"run_full_pipeline", "run_preprocessing_only"}
           THEN InputDirs ELSE {{}})
    /\ processed_dir \in
          (CASE op = "run_full_pipeline" -> {{}, {StaleImage}}
             [] op = "run_minutiae_extraction_only" -> InputDirs
             [] OTHER -> {{}})
    /\ source_dir \in
          (IF op \in {"run_full_pipeline", "run_minutiae_extraction_only"}
           THEN {<<>>, [q \in {StaleMin} |-> FiveRecords]} ELSE {<<>>})
    /\ txt_dir \in
          (IF op # "run_preprocessing_only" /\ dir_exists
           THEN {[st \in Stems |-> NoFile],
                 [st \in Stems |-> IF st = "a" THEN TextOf(<<Row4>>) ELSE NoFile]}
           ELSE {[st \in Stems |-> NoFile]})
    /\ templates_dir = [st \in Stems |-> NoImage]
    /\ target_size = <<3, 3>>
    /\ orig_size = <<3, 3>>
    /\ line_length = ORIENTATION_LINE_LENGTH
    /\ minutiae = <<>>
    /\ stats = <<>>
    /\ counts = NoCounts
    /\ last = Idle
    /\ quality_threshold = 0
    /\ min_minutiae_count = PipelineMinCount
    /\ min_files = <<>>
    /\ status = <<>>
    /\ successful = 0
    /\ total = 0
    /\ idx = 0
    /\ minutiae_dir = <<>>
    /\ txt_files = <<>>
    /\ include_singular = FALSE
    /\ image_files = <<>>
    /\ output_dir = {}
    /\ keep_all_files = FALSE
    /\ det = NoDetector
    /\ min_file = <<>>
    /\ canon_file = NoFile
    /\ result = EmptyTable

Call(fn, from, to) == [fn |-> fn, from |-> from, to |-> to]

\* what no step of the pipeline changes
pipeFrame ==
    <<op, counters, last, params, min_files, status, minutiae_dir, txt_files,
      include_singular, extVars, min_file, canon_file, result, renderVars,
      dir_exists>>

\* Step 1 (lines 100-112), and run_preprocessing_only (lines 179-190):
\* process_folder counts the images of input_dir and writes those it accepts
\* to the processed directory.
PipePreprocess ==
    /\ op \in {"run_full_pipeline", "run_preprocessing_only"}
    /\ pc = "step1"
    /\ \E S \in SUBSET {q \in input_dir : IsImage(q)} :
          /\ processed_dir' = processed_dir \cup S
          /\ counts' = [counts EXCEPT
                           !.processed_count = Cardinality(S),
                           !.total_images = Cardinality({q \in input_dir : IsImage(q)}),
                           !.calls = Append(@, Call("process_folder", "input_dir",
                                                    "processed_dir"))]
    /\ stats' =
          IF op = "run_full_pipeline"
          THEN ("preprocessing" :>
                   [processed |-> counts'.processed_count,
                    total |-> counts'.total_images,
                    success_rate |-> Rate(counts'.processed_count,
                                          counts'.total_images)]) @@ stats
          ELSE [processed |-> counts'.processed_count,
                total |-> counts'.total_images,
                success_rate |-> Rate(counts'.processed_count, counts'.total_images)]
    /\ pc' = IF op = "run_full_pipeline" THEN "step2" ELSE "returned"
    /\ UNCHANGED <<pipeFrame, source_dir, txt_dir, templates_dir>>

\* the effect of the extraction r on the pipeline
ExtractDone(r) ==
    /\ source_dir' = r.dir
    /\ IF r.end # "returned"
       THEN /\ pc' = r.end
            /\ counts' = [counts EXCEPT
                             !.calls = Append(@, Call("extract_minutiae_from_folder",
                                                      "processed_dir", "minutiae_dir"))]
            /\ UNCHANGED stats
       ELSE /\ pc' = "step3"
            /\ counts' =
                  [counts EXCEPT
                      !.minutiae_count = r.successful,
                      !.extract_total = r.total,
                      !.total_images = IF op = "run_full_pipeline" THEN @ ELSE r.total,
                      !.calls = Append(@, Call("extract_minutiae_from_folder",
                                               "processed_dir", "minutiae_dir"))]
            /\ stats' =
                  IF op = "run_full_pipeline"
                  THEN ("minutiae_extraction" :>
                           [extracted |-> r.successful,
                            success_rate |-> Rate(r.successful,
                                                  counts.processed_count)]) @@ stats
                  ELSE stats

\* Step 2 (lines 114-122), and the extraction of run_minutiae_extraction_only
\* (lines 213-215), which reads the images of the directory it is given
PipeExtract ==
    /\ op \in {"run_full_pipeline", "run_minutiae_extraction_only"}
    /\ pc = "step2"
    /\ \E order \in ImageOrders(processed_dir) :
          \E outs \in [1..Len(order) -> PipeOutcomes] :
              ExtractDone(ExtractFold(order, 1, outs, source_dir, 0))
    /\ UNCHANGED <<pipeFrame, processed_dir, txt_dir, templates_dir>>

\* the effect of the conversion r on the pipeline
ConvertDone(r) ==
    /\ txt_dir' = r.txt
    /\ counts' = [counts EXCEPT
                     !.txt_count = r.successful,
                     !.convert_total = r.total,
                     !.calls = Append(@, Call("convert_all_minutiae_files",
                                              "minutiae_dir", "txt_dir"))]
    /\ stats' =
          IF op = "run_full_pipeline"
          THEN ("minutiae_conversion" :>
                   [converted |-> r.successful,
                    success_rate |-> Rate(r.successful, counts.minutiae_count)])
                   @@ stats
          ELSE [extracted |-> counts.minutiae_count,
                converted |-> r.successful,
                total |-> counts.total_images,
                extraction_rate |-> Rate(counts.minutiae_count, counts.total_images),
                conversion_rate |-> Rate(r.successful, counts.minutiae_count)]
    /\ pc' = IF op = "run_full_pipeline" THEN "step4" ELSE "returned"

\* Step 3 (lines 124-132), and the conversion of run_minutiae_extraction_only
\* (lines 218-228)
PipeConvert ==
    /\ op \in {"run_full_pipeline", "run_minutiae_extraction_only"}
    /\ pc = "step3"
    /\ \E order \in WalkOrders(source_dir) :
          ConvertDone(ConvertFold(order, 1, source_dir, txt_dir, 0,
                                  PipelineMinCount))
    /\ UNCHANGED <<pipeFrame, processed_dir, source_dir, templates_dir>>

\* the effect of the template creation r on the pipeline
TemplatesDone(r) ==
    /\ templates_dir' = r.dir
    /\ counts' = [counts EXCEPT
                     !.template_count = r.successful,
                     !.template_total = r.total,
                     !.calls = Append(@, Call("create_templates_from_folder",
                                              "txt_dir", "templates_dir"))]
    /\ stats' =
          IF op = "run_full_pipeline"
          THEN ("template_creation" :>
                   [created |-> r.successful,
                    success_rate |-> Rate(r.successful, counts.txt_count)]) @@ stats
          ELSE [created |-> r.successful,
                total |-> r.total,
                success_rate |-> Rate(r.successful, r.total)]
    /\ pc' = IF op = "run_full_pipeline" THEN "overall" ELSE "returned"

\* Step 4 (lines 134-144), and run_template_creation_only (lines 249-259);
\* os.listdir of a directory that does not exist raises
PipeTemplates ==
    /\ op \in {"run_full_pipeline", "run_template_creation_only"}
    /\ pc = "step4"
    /\ IF dir_exists
       THEN \E order \in OrdersOf(TxtStems(txt_dir)) :
               TemplatesDone(TemplatesFold(order, 1, txt_dir, templates_dir, 0,
                                           target_size))
       ELSE /\ pc' = "raised"
            /\ UNCHANGED <<templates_dir, counts, stats>>
    /\ UNCHANGED <<pipeFrame, processed_dir, source_dir, txt_dir>>

\* stats['overall'] and the return (lines 146-156)
PipeOverall ==
    /\ op = "run_full_pipeline"
    /\ pc = "overall"
    /\ stats' = ("overall" :>
                    [input_images |-> counts.total_images,
                     final_templates |-> counts.template_count,
                     overall_success_rate |-> Rate(counts.template_count,
                                                   counts.total_images)]) @@ stats
    /\ pc' = "returned"
    /\ UNCHANGED <<pipeFrame, processed_dir, source_dir, txt_dir, templates_dir,
                   counts>>

NextPipeline ==
    \/ PipePreprocess
    \/ PipeExtract
    \/ PipeConvert
    \/ PipeTemplates
    \/ PipeOverall

SpecPipeline == InitPipeline /\ [][NextPipeline]_vars

-----------------------------------------------------------------------------
(* The batch functions applied to the same files in two orders of          *)
(* discovery.  det maps each image to what the detector does for it.       *)

\* .min files of the same stem in two subdirectories, and another one
OrderMinPaths == {Path("x", "a", "min"), Path("y", "a", "min"), Path("", "b", "min")}

\* images of the same stem in one directory, and another one
OrderImagePaths == {Path("", "a", "png"), Path("", "a", "tif"), Path("", "b", "png")}

OrderSourceDirs ==
    UNION {[D -> StoreRawFiles] :
              D \in {E \in SUBSET OrderMinPaths : Cardinality(E) <= MaxFiles}}

\* a detector that exits: it writes the .min file of five records or of no
\* record, or none
ExitOutcomes == {"min5", "min0", "nomin"}

InitOrder ==
    /\ op \in {"extract_minutiae_from_folder", "convert_all_minutiae_files"}
    /\ pc = "order"
    /\ source_dir \in
          (IF op = "convert_all_minutiae_files" THEN OrderSourceDirs ELSE {<<>>})
    /\ min_minutiae_count \in
          (IF op = "convert_all_minutiae_files" THEN MinCounts ELSE {0})
    /\ input_dir \in
          (IF op = "extract_minutiae_from_folder"
           THEN {E \in SUBSET OrderImagePaths : Cardinality(E) <= MaxFiles}
           ELSE {{}})
    /\ det \in [input_dir -> ExitOutcomes]
    /\ last = [first |-> <<>>, second |-> <<>>, orders |-> <<>>]
    /\ quality_threshold = 0
    /\ min_files = <<>>
    /\ txt_dir = [st \in Stems |-> NoFile]
    /\ status = <<>>
    /\ successful = 0
    /\ total = 0
    /\ idx = 0
    /\ image_files = <<>>
    /\ output_dir = {}
    /\ keep_all_files = FALSE
    /\ min_file = <<>>
    /\ canon_file = NoFile
    /\ result = EmptyTable
    /\ dir_exists = TRUE
    /\ TplUnused
    /\ RenderUnused
    /\ PipeUnused

\* convert_all_minutiae_files run on the files in the orders o1 and o2
ConvertInOrders ==
    /\ op = "convert_all_minutiae_files"
    /\ pc = "order"
    /\ \E o1, o2 \in WalkOrders(source_dir) :
          last' = [first |-> ConvertFold(o1, 1, source_dir, txt_dir, 0,
                                         min_minutiae_count),
                   second |-> ConvertFold(o2, 1, source_dir, txt_dir, 0,
                                          min_minutiae_count),
                   orders |-> <<o1, o2>>]
    /\ pc' = "compared"
    /\ UNCHANGED <<op, counters, params, storeVars, tplVars, extVars, callVars>>

\* extract_minutiae_from_folder run on the images in the orders o1 and o2
ExtractInOrders ==
    /\ op = "extract_minutiae_from_folder"
    /\ pc = "order"
    /\ \E o1, o2 \in ImageOrders(input_dir) :
          last' = [first |-> ExtractFold(o1, 1, [j \in 1..Len(o1) |-> det[o1[j]]],
                                         <<>>, 0),
                   second |-> ExtractFold(o2, 1, [j \in 1..Len(o2) |-> det[o2[j]]],
                                          <<>>, 0),
                   orders |-> <<o1, o2>>]
    /\ pc' = "compared"
    /\ UNCHANGED <<op, counters, params, storeVars, tplVars, extVars, callVars>>

NextOrder == ConvertInOrders \/ ExtractInOrders

SpecOrder == InitOrder /\ [][NextOrder]_vars

-----------------------------------------------------------------------------
(* Properties.                                                             *)

\* a record line that parses: five or more fields, integer coordinates and
\* direction, numeric quality
WellFormed(line) ==
    /\ Len(line) >= 5
    /\ IsIntPair(line[2])
    /\ IsInt(line[3])
    /\ IsFloat(line[4])

Malformed(line) == line # <<>> /\ ~WellFormed(line)

\* a record that parses and passes the quality filter
Survives(line, qt) == WellFormed(line) /\ FloatOf(line[4]) >= qt

NotMalformed(line) == ~Malformed(line)

C2_OneLinePerPoint ==
    (op = "convert_all_minutiae_files" /\ idx > 1 /\ last.fault = "none") =>
        /\ last.survivors >= 1 =>
              last.ret = "path" /\ last.line_count = last.survivors
        /\ (last.survivors >= 1 /\ last.survivors >= min_minutiae_count) =>
              last.counted /\ txt_dir[StemOf(last.path)] # NoFile

\* C3: round trip.  The points written by convert_min_to_txt and re-read by
\* parse_minutiae_file come back as an (N,4) table with the written type, x
\* and y, and the written degrees converted to radians (within 1e-4 rad).
C3_RoundTrip ==
    (op = "convert_min_to_txt" /\ pc = "parsed") =>
        LET n == Len(last.data) IN
        /\ result.shape = <<n, 4>>
        /\ Len(result.rows) = n
        /\ \A j \in 1..n :
              /\ result.rows[j][1] = last.data[j][1].v
              /\ result.rows[j][2] = last.data[j][3].v
              /\ result.rows[j][3] = last.data[j][5].v
              /\ result.rows[j][4] - DegToRad(last.data[j][7].v) \in {-1, 0, 1}

\* C4: the raw file with a three-line header and the records
\* id:10,20:0:TYP_BIF:0.9 and id:30,40:8:TYP_OTH:0.9 converts, at quality
\* threshold 0.0, into the canonical lines "1 10 20 90.0" and "2 30 40 0.0".
C4_SpecExample ==
    (/\ op = "convert_min_to_txt"
     /\ pc = "converted"
     /\ min_file = Header3 \o <<SpecBif, SpecOth>>
     /\ quality_threshold = 0
     /\ last.io = "ok") =>
        /\ last.ret = "path"
        /\ FileLines(last.file)
              = <<RecordText(1, 10, 20, 9000), RecordText(2, 30, 40, 0)>>

\* C5: a malformed record is skipped on its own.  The conversion of a raw
\* file gives what the conversion of the same file without its malformed
\* records gives, and it succeeds whenever some record survives.
C5_MalformedSkipped ==
    (op = "convert_min_to_txt" /\ pc # "call" /\ last.io = "ok") =>
        LET recs == RecordLines(min_file)
            head == SubSeq(min_file, 1, Len(min_file) - Len(recs))
            clean == head \o SelectSeq(recs, NotMalformed)
            ref == convert_min_to_txt(clean, NoFile, quality_threshold, "ok")
        IN  /\ last.data = ref.data
            /\ last.file = ref.file
            /\ last.ret = ref.ret
            /\ (\E j \in 1..Len(recs) : Survives(recs[j], quality_threshold))
                  => last.ret = "path" /\ last.file # NoFile

\* a malformed record between two surviving ones was skipped and both survivors
\* were emitted
C5_Witness ==
    /\ op = "convert_min_to_txt"
    /\ pc = "converted"
    /\ last.io = "ok"
    /\ min_file = Header3 \o <<NistBif, BadXY, NistRig>>
    /\ last.ret = "path"
    /\ last.data = <<RecordText(1, 10, 20, 9000), RecordText(2, 30, 40, 0)>>

\* C6: when no record of a raw file survives, convert_min_to_txt returns None
\* and writes no file, and the pass of convert_all_minutiae_files over it
\* leaves the output directory and the success count as they were.
C6_NoSurvivorNoFile ==
    [][(op = "convert_all_minutiae_files" /\ idx' = idx + 1
            /\ last'.survivors = 0)
          => /\ last'.ret = "None"
             /\ txt_dir' = txt_dir
             /\ successful' = successful
             /\ total' = total + 1]_vars

\* a pass over a three-line raw file (no record line) returned None, counted
\* nothing and left the text file of an earlier run in place
C6_Witness ==
    /\ op = "convert_all_minutiae_files"
    /\ idx = 2
    /\ source_dir[last.path] = <<HeaderLine, NistBif, NistRig>>
    /\ last.fault = "none"
    /\ last.survivors = 0
    /\ last.ret = "None"
    /\ successful = 0
    /\ total = 1
    /\ StemOf(last.path) = "a"
    /\ txt_dir["a"] = StaleText

\* every non-blank line of the text has exactly four numeric fields, and there
\* is at least one
WellFormedCanon(text) ==
    /\ text # NoFile
    /\ LET rs == DataRows(text) IN
       /\ Len(rs) >= 1
       /\ \A j \in 1..Len(rs) :
             Len(rs[j]) = 4 /\ \A c \in 1..4 : IsNumField(rs[j][c])

\* C7: parse_minutiae_file returns shape (N,4) for N well-formed records and
\* the empty (0,4) table for a missing, empty, non-numeric or
\* wrong-column-count file.
C7_ParseShapes ==
    (op = "parse_minutiae_file" /\ pc = "parsed") =>
        IF WellFormedCanon(canon_file)
        THEN result.shape = <<Len(DataRows(canon_file)), 4>>
        ELSE result = EmptyTable

\* the number of points in the table loaded from the file of the last pass
LastPoints(dir, l) == parse_minutiae_file(dir[l.name]).shape[1]

\* C8: when the table loaded from a canonical file has no point,
\* create_template_from_file returns None, and the pass of
\* create_templates_from_folder over that file writes no image and leaves the
\* success count as it was, while it counts the file in total.
C8_EmptyTableNoTemplate ==
    [][(op = "create_templates_from_folder" /\ idx' = idx + 1
            /\ LastPoints(minutiae_dir, last') = 0)
          => /\ last'.image = NoImage
             /\ templates_dir' = templates_dir
             /\ successful' = successful
             /\ total' = total + 1]_vars

\* the second file of a directory, one that convert_min_to_txt wrote, loaded
\* as a table without points: no image for it, though the first file got one
C8_Witness ==
    /\ op = "create_templates_from_folder"
    /\ pc = "returned"
    /\ total = 2
    /\ successful = 1
    /\ minutiae_dir[last.name] = StaleText
    /\ LastPoints(minutiae_dir, last) = 0
    /\ last.image = NoImage
    /\ templates_dir[StemOf(last.name)] = NoImage

\* C9: a batch operation completes and returns (succeeded, total) whatever
\* happens to its items: it never stops before its return, and at its return
\* every discovered item has been counted in total.
C9_BatchAlwaysReturns ==
    (op = "extract_minutiae_from_folder") =>
        /\ pc \in {"loop", "wait", "check", "returned"}
        /\ pc = "returned" => total = Len(image_files)

\* C10: the detector runs under a timeout.  When the detector never exits, or
\* blocks, the wait for it ends all the same: the pass ends with the image not
\* counted, and the loop goes on to its return.
C10_DetectorWaitEnds ==
    (/\ op = "extract_minutiae_from_folder"
     /\ pc = "wait"
     /\ det.exit \in {"hangs", "pipe_full"}) ~> (pc \in {"loop", "returned"})

\* C11: after a detector run, call_mindtct returns True exactly when the .min
\* file of the prefix exists, whatever the detector wrote to stderr, and
\* extract_minutiae_from_image returns the .min path exactly when call_mindtct
\* returned True, and None otherwise.
C11_MinFileDecides ==
    (/\ op = "extract_minutiae_from_folder"
     /\ pc \in {"loop", "returned", "raised"}
     /\ det.exit = "exits") =>
        /\ last.call = last.exists
        /\ ~last.raised
        /\ last.min_file = last.call

\* the pixel at the scaled coordinates cut to their integer part, clipped
TruncatedPixel(r, orig, target) ==
    <<Clip(Trunc(r[3] * target[1], 100 * orig[1]), 0, target[1] - 1),
      Clip(Trunc(r[2] * target[2], 100 * orig[2]), 0, target[2] - 1)>>

\* C12 as stated: create_minutiae_map sets, for every point, the pixel at
\* column round(x*W'/W) and row round(y*H'/H), clipped to the raster.
C12_RoundedPixelSet ==
    (op = "create_minutiae_map" /\ pc = "rendered") =>
        \A j \in 1..Len(minutiae) :
            last.out[<<Clip(RoundHalfEven(minutiae[j][3] * target_size[1],
                                          100 * orig_size[1]),
                            0, target_size[1] - 1),
                       Clip(RoundHalfEven(minutiae[j][2] * target_size[2],
                                          100 * orig_size[2]),
                            0, target_size[2] - 1)>>] = 255

\* C12 amended: create_minutiae_map sets, for every point, the pixel at column
\* trunc(x*W'/W) and row trunc(y*H'/H) (the fraction dropped, towards zero),
\* clipped to the raster, and sets no other pixel.
C12_TruncatedPixelSet ==
    (op = "create_minutiae_map" /\ pc = "rendered") =>
        \A p \in Pixels(target_size) :
            last.out[p] =
                IF \E j \in 1..Len(minutiae) :
                      p = TruncatedPixel(minutiae[j], orig_size, target_size)
                THEN 255 ELSE 0

\* the point (x, y) = (1, 3) of a 4 x 4 scan rendered to 3 x 3 is at column 0,
\* row 2 (0.75 and 2.25 scaled), and the pixel at column 1 is not set
C12_Witness ==
    /\ op = "create_minutiae_map"
    /\ pc = "rendered"
    /\ Len(minutiae) = 1
    /\ minutiae[1][2] = 100
    /\ minutiae[1][3] = 300
    /\ orig_size = <<4, 4>>
    /\ target_size = <<3, 3>>
    /\ last.out[<<2, 0>>] = 255
    /\ last.out[<<2, 1>>] = 0

\* the rows whose type is one of T
OfTypes(rows, T) == SelectSeq(rows, LAMBDA r : \E t \in T : r[1] = 100 * t)

\* both fields of the channel are zero everywhere
AllZero(channel) ==
    \A p \in DOMAIN channel.minutiae_map :
        channel.minutiae_map[p] = 0 /\ channel.orientation_map[p] = 0

\* C13: in the image create_template_image returns, channel 0 is the one of
\* the type-1 points alone and channel 1 the one of the type-2 points alone;
\* channel 2 is all zero in the default mode and the one of the type-4 and
\* type-5 points alone in the extended mode; a channel without a point of its
\* types is all zero.
C13_ChannelsByType ==
    (op = "create_template_image" /\ pc = "rendered") =>
        /\ last.out.channels[1] =
              create_template_image(OfTypes(minutiae, {1}), orig_size,
                                    target_size, include_singular).channels[1]
        /\ last.out.channels[2] =
              create_template_image(OfTypes(minutiae, {2}), orig_size,
                                    target_size, include_singular).channels[2]
        /\ include_singular =>
              last.out.channels[3] =
                  create_template_image(OfTypes(minutiae, {4, 5}), orig_size,
                                        target_size, TRUE).channels[3]
        /\ ~include_singular => AllZero(last.out.channels[3])
        /\ OfTypes(minutiae, {1}) = <<>> => AllZero(last.out.channels[1])
        /\ OfTypes(minutiae, {2}) = <<>> => AllZero(last.out.channels[2])

\* a termination and a bifurcation rendered in the default mode: two different
\* channels 0 and 1, neither of them zero, and a zero channel 2
C13_Witness ==
    /\ op = "create_template_image"
    /\ pc = "rendered"
    /\ ~include_singular
    /\ Len(minutiae) = 2
    /\ minutiae[1][1] = 200
    /\ minutiae[2][1] = 100
    /\ ~AllZero(last.out.channels[1])
    /\ ~AllZero(last.out.channels[2])
    /\ last.out.channels[1] # last.out.channels[2]
    /\ AllZero(last.out.channels[3])

\* C14: the decode of direction units.  Unit 0 gives 90 degrees and unit 8
\* gives 0; the units u and u + 32 give the same angle, for negative u too;
\* every angle written is in [0, 360).
C14_DirectionDecode ==
    (op = "convert_min_to_txt" /\ pc = "converted" /\ last.io = "ok"
        /\ min_file \in DecodeFiles) =>
        LET u == min_file[HeaderLines + 1][3].n[1] IN
        /\ Len(last.data) = 2
        /\ last.data[1][7].v = last.data[2][7].v
        /\ last.data[1][7].v >= 0
        /\ last.data[1][7].v < 36000
        /\ u = 0 => last.data[1][7].v = 9000
        /\ u = 8 => last.data[1][7].v = 0
        /\ u = -32 => last.data[2][7].v = 9000

\* the units -4 and 28 were both written as 135 degrees
C14_Witness ==
    /\ op = "convert_min_to_txt"
    /\ pc = "converted"
    /\ last.io = "ok"
    /\ min_file = Header3 \o <<UnitRecord(-4), UnitRecord(28)>>
    /\ last.data[1][7].v = 13500
    /\ last.data[2][7].v = 13500

\* the rate r is succeeded / total, and 0 when total is 0
IsRateOf(r, succeeded, total_) ==
    /\ ~r.err
    /\ IF total_ = 0 THEN r.n = 0 ELSE r.n * total_ = succeeded * r.d

\* C15: every rate the pipeline reports for a stage is that stage's
\* succeeded / total, 0 when the stage's total is 0, and no division by zero
\* happens.
C15_RatesAreStageRates ==
    /\ (op = "run_full_pipeline" /\ pc \notin {"raised", "hung"}) =>
        /\ "preprocessing" \in DOMAIN stats =>
              IsRateOf(stats.preprocessing.success_rate,
                       counts.processed_count, counts.total_images)
        /\ "minutiae_extraction" \in DOMAIN stats =>
              IsRateOf(stats.minutiae_extraction.success_rate,
                       counts.minutiae_count, counts.extract_total)
        /\ "minutiae_conversion" \in DOMAIN stats =>
              IsRateOf(stats.minutiae_conversion.success_rate,
                       counts.txt_count, counts.convert_total)
        /\ "template_creation" \in DOMAIN stats =>
              IsRateOf(stats.template_creation.success_rate,
                       counts.template_count, counts.template_total)
    /\ (op = "run_preprocessing_only" /\ pc = "returned") =>
          IsRateOf(stats.success_rate, counts.processed_count, counts.total_images)
    /\ (op = "run_minutiae_extraction_only" /\ pc = "returned") =>
        /\ IsRateOf(stats.extraction_rate, counts.minutiae_count,
                    counts.extract_total)
        /\ IsRateOf(stats.conversion_rate, counts.txt_count, counts.convert_total)
    /\ (op = "run_template_creation_only" /\ pc = "returned") =>
          IsRateOf(stats.success_rate, counts.template_count,
                   counts.template_total)

\* the four batch calls of run_full_pipeline, each reading the directory the
\* one before it wrote
StageCalls ==
    <<Call("process_folder", "input_dir", "processed_dir"),
      Call("extract_minutiae_from_folder", "processed_dir", "minutiae_dir"),
      Call("convert_all_minutiae_files", "minutiae_dir", "txt_dir"),
      Call("create_templates_from_folder", "txt_dir", "templates_dir")>>

\* C16: run_full_pipeline calls the stages in the order preprocess, extract,
\* convert, render, each on the directory the stage before it wrote; it never
\* stops before its end, and at its end it has run the four stages and
\* reports the overall rate final_templates / input_images (0 when there is
\* no input image).
C16_StagesInOrderToTheEnd ==
    (op = "run_full_pipeline") =>
        /\ Len(counts.calls) <= Len(StageCalls)
        /\ counts.calls = SubSeq(StageCalls, 1, Len(counts.calls))
        /\ \A i \in 2..Len(counts.calls) :
              counts.calls[i].from = counts.calls[i - 1].to
        /\ pc \in {"step1", "step2", "step3", "step4", "overall", "returned"}
        /\ pc = "returned" =>
              /\ counts.calls = StageCalls
              /\ stats.overall.input_images = counts.total_images
              /\ stats.overall.final_templates = counts.template_count
              /\ IsRateOf(stats.overall.overall_success_rate,
                          counts.template_count, counts.total_images)

\* C17: the result of a batch does not depend on the order of discovery.
\* Run on the same files in two orders, extract_minutiae_from_folder and
\* convert_all_minutiae_files leave the same files with the same contents and
\* return the same counts.
C17_OrderIndependent ==
    (pc = "compared") => last.first = last.second

\* C18: a missing source directory does not make the batch raise.  When the
\* directory of .txt files does not exist, create_templates_from_folder does
\* not raise, and it returns with succeeded = 0.
C18_MissingDirIsNotFatal ==
    (op = "create_templates_from_folder" /\ ~dir_exists) =>
        /\ pc # "raised"
        /\ pc = "returned" => successful = 0

\* C19: the counters of a batch loop only grow, one item at a time.  In
\* create_templates_from_folder 0 <= succeeded <= total always holds, total
\* is the number of passes made, every pass takes the next discovered file
\* (none twice) and adds one to total and at most one to succeeded, and at
\* the return total is the number of files discovered.
C19_CountersBounded ==
    (op = "create_templates_from_folder") =>
        /\ 0 <= successful /\ successful <= total
        /\ pc \in {"loop", "returned"} => total = idx - 1
        /\ pc = "returned" => total = Len(txt_files)

C19_CountersStep ==
    (op = "create_templates_from_folder") =>
        /\ successful' \in {successful, successful + 1}
        /\ total' \in {total, total + 1}
        /\ successful' - successful <= total' - total
        /\ (total' = total + 1) <=> (idx' = idx + 1)
        /\ idx' \in {idx, idx + 1}
        /\ idx' = idx + 1 => (idx <= Len(txt_files) /\ last'.name = txt_files[idx])

SegmentOf(j) == LineCoords(minutiae[j], orig_size, target_size, line_length)

\* C20: create_orientation_map writes only inside the raster and only 255.
\* The field it returns has the target size and holds only 0 and 255; every
\* pixel that is 255 is a sample of the segment of some point, so a sample
\* outside the raster is dropped and not moved onto the border; and no pass
\* writes to an index outside the raster.
C20_OnlyInBoundsSamples ==
    (op = "create_orientation_map" /\ pc = "rendered") =>
        /\ DOMAIN last.out = Pixels(target_size)
        /\ \A p \in Pixels(target_size) :
              /\ last.out[p] \in {0, 255}
              /\ last.out[p] = 255 =>
                    \E j \in 1..Len(minutiae) : p \in SegmentOf(j)
        /\ \A j \in 1..Len(minutiae) :
              PointWrites(minutiae[j], orig_size, target_size, line_length)
                 \subseteq Pixels(target_size)

\* two segments that cross in a pixel of the raster, one of them with a
\* sample outside the raster
C20_Witness ==
    /\ op = "create_orientation_map"
    /\ pc = "rendered"
    /\ Len(minutiae) = 2
    /\ SegmentOf(1) \ Pixels(target_size) # {}
    /\ \E p \in Pixels(target_size) :
          p \in SegmentOf(1) /\ p \in SegmentOf(2) /\ last.out[p] = 255
    /\ \E p \in Pixels(target_size) : last.out[p] = 0

\* the number of files a batch left in its output directory, which was empty
\* before the batch
OutputFiles(r) ==
    IF op = "convert_all_minutiae_files"
    THEN Cardinality({st \in Stems : r.txt[st] # NoFile})
    ELSE Cardinality(DOMAIN r.dir)

\* C21: no two discovered inputs are written to the same output path.  After
\* extract_minutiae_from_folder or convert_all_minutiae_files on an empty
\* output directory, the number of files in it is the count of successes
\* returned.
C21_OneOutputPerSuccess ==
    (pc = "compared") => OutputFiles(last.first) = last.first.successful

\* a rate between 0 and 1
InUnitInterval(r) == ~r.err /\ 0 <= r.n /\ r.n <= r.d

\* C22: the rates run_full_pipeline returns lie in [0, 1] and the success
\* counts do not grow along the pipeline.  Every rate of a stage and the
\* overall rate is at least 0 and at most 1, and at the return templates <=
\* converted <= extracted <= processed <= input images, whatever files the
\* intermediate directories held before the run.
C22_RatesAndCountsBounded ==
    (op = "run_full_pipeline") =>
        /\ \A stage \in DOMAIN stats \ {"overall"} :
              InUnitInterval(stats[stage].success_rate)
        /\ "overall" \in DOMAIN stats =>
              InUnitInterval(stats.overall.overall_success_rate)
        /\ pc = "returned" =>
              /\ counts.template_count <= counts.txt_count
              /\ counts.txt_count <= counts.minutiae_count
              /\ counts.minutiae_count <= counts.processed_count
              /\ counts.processed_count <= counts.total_images

\* C23: extract_minutiae_from_image reports success only when the detector
\* wrote the .min file in this run.  After a pass that returned the .min path,
\* the detector of that pass has exited and has written the .min file; a .min
\* file that was in the output directory before does not count.
C23_SuccessNeedsFreshMin ==
    (op = "extract_minutiae_from_folder" /\ pc \in {"loop", "returned"}) =>
        (last.min_file => (det.exit = "exits" /\ det.min))

=============================================================================
